---- MODULE Spec2Model ----
(***************************************************************************)
(* Energetium: thermodynamics and kinetics routines of src/wasm/src/lib.rs *)
(* (a Typst WebAssembly plugin).  Every exported function is a pure        *)
(* function from byte buffers to Result<Vec<u8>, String>; the model keeps  *)
(* the last call (operation, argument buffers, result) as its state.       *)
(*                                                                         *)
(* Byte buffers are sequences of one-character strings.  f64 values are    *)
(* modelled as decimal floating point numbers with Digits significant      *)
(* digits and the IEEE-754 special values (signed zero, infinities, NaN).  *)
(***************************************************************************)
EXTENDS Integers, Sequences, FiniteSets, TLC

VARIABLES op, args, result

vars == <<op, args, result>>

(***************************************************************************)
(* Bounds of the model.                                                    *)
(***************************************************************************)
\* significant decimal digits kept by the modelled f64
Digits == 3
\* largest precision argument that is enumerated
MaxPrec == 3
\* longest reactant / product list that is enumerated
MaxTerms == 2
\* largest reaction order that is enumerated
MaxOrder == 3

(***************************************************************************)
(* f64                                                                     *)
(***************************************************************************)
\* decimal exponent range of the finite f64 values
MaxExp == 308
MinExp == -324
\* the value `as i32` saturates to
I32Max == 2147483647

Pow10(n) == 10 ^ n

RECURSIVE NumDigits(_)
NumDigits(n) == IF n < 10 THEN 1 ELSE 1 + NumDigits(n \div 10)

NaN == [c |-> "nan", s |-> 1, m |-> 0, e |-> 0]
Inf(s) == [c |-> "inf", s |-> s, m |-> 0, e |-> 0]
Zero(s) == [c |-> "fin", s |-> s, m |-> 0, e |-> 0]

IsNaN(x) == x.c = "nan"
IsInf(x) == x.c = "inf"
IsFinite(x) == x.c = "fin"
IsZero(x) == x.c = "fin" /\ x.m = 0

\* n / 10^k rounded to the nearest integer, ties to even (n >= 0, k >= 0)
RoundHalfEven(n, k) ==
    IF k = 0 THEN n
    ELSE IF k > 9 THEN 0
    ELSE LET q == n \div Pow10(k)
             r == n % Pow10(k)
             half == 5 * Pow10(k - 1)
         IN  IF r > half \/ (r = half /\ q % 2 = 1) THEN q + 1 ELSE q

\* the f64 nearest to s * n * 10^u (n >= 0): Digits significant digits,
\* overflow to infinity, underflow to zero
FNorm(s, n, u) ==
    IF n = 0 THEN Zero(s)
    ELSE LET d == NumDigits(n)
             m0 == IF d <= Digits THEN n * Pow10(Digits - d)
                   ELSE RoundHalfEven(n, d - Digits)
             carry == m0 = Pow10(Digits)
             m == IF carry THEN Pow10(Digits - 1) ELSE m0
             e == IF carry THEN u + d ELSE u + d - 1
         IN  IF e > MaxExp THEN Inf(s)
             ELSE IF e < MinExp THEN Zero(s)
             ELSE [c |-> "fin", s |-> s, m |-> m, e |-> e]

One == FNorm(1, 1, 0)
Two == FNorm(1, 2, 0)
Thousand == FNorm(1, 1000, 0)
Milli == FNorm(1, 1, -3)

FNeg(x) == IF IsNaN(x) THEN NaN ELSE [x EXCEPT !.s = -x.s]
FAbs(x) == IF IsNaN(x) THEN NaN ELSE [x EXCEPT !.s = 1]

\* |a| >= |b| for finite a, b
MagGe(a, b) ==
    IF b.m = 0 THEN TRUE
    ELSE IF a.m = 0 THEN FALSE
    ELSE a.e > b.e \/ (a.e = b.e /\ a.m >= b.m)

\* a < b, a >= b, a == b as the f64 comparison operators (false on NaN)
FLt(a, b) ==
    IF IsNaN(a) \/ IsNaN(b) THEN FALSE
    ELSE IF IsInf(a) THEN a.s = -1 /\ ~(IsInf(b) /\ b.s = -1)
    ELSE IF IsInf(b) THEN b.s = 1
    ELSE IF a.m = 0 /\ b.m = 0 THEN FALSE
    ELSE IF a.m = 0 THEN b.s = 1
    ELSE IF b.m = 0 THEN a.s = -1
    ELSE IF a.s # b.s THEN a.s = -1
    ELSE IF a.s = 1 THEN ~MagGe(a, b)
    ELSE ~MagGe(b, a)

FGe(a, b) == ~IsNaN(a) /\ ~IsNaN(b) /\ ~FLt(a, b)

FEq(a, b) == FGe(a, b) /\ FGe(b, a)

FMul(a, b) ==
    IF IsNaN(a) \/ IsNaN(b) THEN NaN
    ELSE IF IsInf(a) \/ IsInf(b)
         THEN IF IsZero(a) \/ IsZero(b) THEN NaN ELSE Inf(a.s * b.s)
    ELSE FNorm(a.s * b.s, a.m * b.m, a.e + b.e - 2 * (Digits - 1))

FDiv(a, b) ==
    IF IsNaN(a) \/ IsNaN(b) THEN NaN
    ELSE IF IsInf(a) THEN IF IsInf(b) THEN NaN ELSE Inf(a.s * b.s)
    ELSE IF IsInf(b) THEN Zero(a.s * b.s)
    ELSE IF IsZero(b) THEN IF IsZero(a) THEN NaN ELSE Inf(a.s * b.s)
    ELSE FNorm(a.s * b.s, (a.m * Pow10(Digits + 1)) \div b.m,
               a.e - b.e - (Digits + 1))

FAdd(a, b) ==
    IF IsNaN(a) \/ IsNaN(b) THEN NaN
    ELSE IF IsInf(a) THEN IF IsInf(b) /\ a.s # b.s THEN NaN ELSE a
    ELSE IF IsInf(b) THEN b
    ELSE IF IsZero(a) /\ IsZero(b)
         THEN Zero(IF a.s = -1 /\ b.s = -1 THEN -1 ELSE 1)
    ELSE IF IsZero(b) THEN a
    ELSE IF IsZero(a) THEN b
    ELSE LET hi == IF MagGe(a, b) THEN a ELSE b
             lo == IF MagGe(a, b) THEN b ELSE a
             gap == hi.e - lo.e
         IN  IF gap > Digits + 1 THEN hi
             ELSE LET sum == hi.s * hi.m * Pow10(gap) + lo.s * lo.m
                  IN  IF sum = 0 THEN Zero(1)
                      ELSE FNorm(IF sum < 0 THEN -1 ELSE 1,
                                 IF sum < 0 THEN -sum ELSE sum,
                                 lo.e - (Digits - 1))

FSub(a, b) == FAdd(a, FNeg(b))

(***************************************************************************)
(* f64::ln and f64::exp, in fixed point arithmetic at scale 10^4           *)
(***************************************************************************)
Scale == 10 ^ 4
\* ln 2 and ln 10 at that scale
Ln2Fix == 6931
Ln10Fix == 23026

\* ln of u / Scale for Scale <= u < 10 * Scale, at scale Scale: halve down
\* to [1, 2), then 2 * atanh((u - 1) / (u + 1)) by its series
RECURSIVE LnMantissa(_)
LnMantissa(u) ==
    IF u >= 2 * Scale THEN Ln2Fix + LnMantissa(u \div 2)
    ELSE LET y == ((u - Scale) * Scale) \div (u + Scale)
             y2 == (y * y) \div Scale
             y3 == (y * y2) \div Scale
             y5 == (y3 * y2) \div Scale
             y7 == (y5 * y2) \div Scale
         IN  2 * (y + y3 \div 3 + y5 \div 5 + y7 \div 7)

FLn(x) ==
    IF IsNaN(x) THEN NaN
    ELSE IF IsZero(x) THEN Inf(-1)
    ELSE IF x.s = -1 THEN NaN
    ELSE IF IsInf(x) THEN Inf(1)
    ELSE LET u == (x.m * Scale) \div Pow10(Digits - 1)
             l == LnMantissa(u) + x.e * Ln10Fix
         IN  IF l = 0 THEN Zero(1)
             ELSE FNorm(IF l < 0 THEN -1 ELSE 1, IF l < 0 THEN -l ELSE l, -4)

\* sum of the terms t, t*r/n, t*r^2/(n(n+1)), ... at scale Scale
RECURSIVE ExpSeries(_, _, _)
ExpSeries(r, t, n) ==
    IF t = 0 THEN 0 ELSE t + ExpSeries(r, (t * r) \div (n * Scale), n + 1)

FExp(x) ==
    IF IsNaN(x) THEN NaN
    ELSE IF IsInf(x) THEN IF x.s = 1 THEN Inf(1) ELSE Zero(1)
    ELSE IF IsZero(x) THEN One
    ELSE IF x.e >= 4 THEN IF x.s = 1 THEN Inf(1) ELSE Zero(1)
    ELSE IF x.e < -5 THEN One
    ELSE LET sh == x.e - (Digits - 1) + 4
             mag == IF sh >= 0 THEN x.m * Pow10(sh) ELSE x.m \div Pow10(-sh)
             xf == x.s * mag
             k == xf \div Ln10Fix
             r == xf % Ln10Fix
         IN  FNorm(1, ExpSeries(r, Scale, 1), k - 4)

(***************************************************************************)
(* Text: byte buffers and the std parsers                                  *)
(***************************************************************************)
DigitChars == <<"0", "1", "2", "3", "4", "5", "6", "7", "8", "9">>

IsDigit(ch) == \E i \in 1..10 : DigitChars[i] = ch
DigitVal(ch) == (CHOOSE i \in 1..10 : DigitChars[i] = ch) - 1

\* a byte that is never part of a UTF-8 encoding
BadByte == "0xFF"

AllDigits(t) == \A i \in 1..Len(t) : IsDigit(t[i])

RECURSIVE TextToNat(_)
TextToNat(t) ==
    IF Len(t) = 0 THEN 0
    ELSE 10 * TextToNat(SubSeq(t, 1, Len(t) - 1)) + DigitVal(t[Len(t)])

RECURSIVE NatToText(_)
NatToText(n) ==
    IF n < 10 THEN <<DigitChars[n + 1]>>
    ELSE NatToText(n \div 10) \o <<DigitChars[(n % 10) + 1]>>

\* Display of an i32
IntToText(i) == IF i < 0 THEN <<"-">> \o NatToText(-i) ELSE NatToText(i)

Lower(ch) ==
    CASE ch = "A" -> "a" [] ch = "F" -> "f" [] ch = "I" -> "i"
      [] ch = "N" -> "n" [] ch = "T" -> "t" [] ch = "Y" -> "y"
      [] OTHER -> ch

LowerText(t) == [i \in 1..Len(t) |-> Lower(t[i])]

HasSign(t) == Len(t) > 0 /\ t[1] \in {"+", "-"}
SignOf(t) == IF Len(t) > 0 /\ t[1] = "-" THEN -1 ELSE 1
Unsigned(t) == IF HasSign(t) THEN SubSeq(t, 2, Len(t)) ELSE t

\* the index after the run of digits that starts at index i
RECURSIVE SpanDigits(_, _)
SpanDigits(t, i) ==
    IF i <= Len(t) /\ IsDigit(t[i]) THEN SpanDigits(t, i + 1) ELSE i

Ok(v) == [v |-> v, ok |-> TRUE]
Err(msg) == [v |-> msg, ok |-> FALSE]

\* std::str::from_utf8
from_utf8(bytes) ==
    IF \E i \in 1..Len(bytes) : bytes[i] = BadByte
    THEN Err("invalid utf-8 sequence")
    ELSE Ok(bytes)

\* <f64 as FromStr>::from_str
ParseF64(t) ==
    LET s == SignOf(t)
        b == Unsigned(t)
        i1 == SpanDigits(b, 1)
        dot == i1 <= Len(b) /\ b[i1] = "."
        i2 == IF dot THEN SpanDigits(b, i1 + 1) ELSE i1
        ip == SubSeq(b, 1, i1 - 1)
        fp == IF dot THEN SubSeq(b, i1 + 1, i2 - 1) ELSE <<>>
        hasExp == i2 <= Len(b) /\ b[i2] \in {"e", "E"}
        ex == IF hasExp THEN SubSeq(b, i2 + 1, Len(b)) ELSE <<>>
        exDigits == Unsigned(ex)
    IN  IF LowerText(b) \in {<<"i", "n", "f">>,
                             <<"i", "n", "f", "i", "n", "i", "t", "y">>}
        THEN Ok(Inf(s))
        ELSE IF LowerText(b) = <<"n", "a", "n">> THEN Ok(NaN)
        ELSE IF Len(ip) + Len(fp) = 0 THEN Err("invalid float literal")
        ELSE IF ~hasExp /\ i2 <= Len(b) THEN Err("invalid float literal")
        ELSE IF hasExp /\ (Len(exDigits) = 0 \/ ~AllDigits(exDigits))
             THEN Err("invalid float literal")
        ELSE Ok(FNorm(s, TextToNat(ip \o fp),
                      SignOf(ex) * TextToNat(exDigits) - Len(fp)))

\* <usize as FromStr>::from_str
ParseUsize(t) ==
    LET b == IF Len(t) > 0 /\ t[1] = "+" THEN SubSeq(t, 2, Len(t)) ELSE t
    IN  IF Len(t) = 0 THEN Err("cannot parse integer from empty string")
        ELSE IF Len(b) = 0 \/ ~AllDigits(b) THEN Err("invalid digit found in string")
        ELSE Ok(TextToNat(b))

\* <i32 as FromStr>::from_str
ParseI32(t) ==
    LET b == Unsigned(t)
    IN  IF Len(t) = 0 THEN Err("cannot parse integer from empty string")
        ELSE IF Len(b) = 0 \/ ~AllDigits(b) THEN Err("invalid digit found in string")
        ELSE Ok(SignOf(t) * TextToNat(b))

\* <bool as FromStr>::from_str
ParseBool(t) ==
    IF t = <<"t", "r", "u", "e">> THEN Ok(TRUE)
    ELSE IF t = <<"f", "a", "l", "s", "e">> THEN Ok(FALSE)
    ELSE Err("provided string was not true or false")


(***************************************************************************)
(* Numeric formatter                                                       *)
(***************************************************************************)
RECURSIVE Zeros(_)
Zeros(n) == IF n <= 0 THEN <<>> ELSE <<"0">> \o Zeros(n - 1)

\* format!("{:.prec$}", value, prec = precision)
FmtFixed(value, precision) ==
    IF IsNaN(value) THEN <<"N", "a", "N">>
    ELSE IF IsInf(value)
         THEN (IF value.s = -1 THEN <<"-">> ELSE <<>>) \o <<"i", "n", "f">>
    ELSE LET u == value.e - (Digits - 1) + precision
             n == IF u >= 0 THEN value.m * Pow10(u)
                  ELSE RoundHalfEven(value.m, -u)
             raw == NatToText(n)
             ds == Zeros(precision + 1 - Len(raw)) \o raw
             cut == Len(ds) - precision
         IN  (IF value.s = -1 THEN <<"-">> ELSE <<>>)
             \o SubSeq(ds, 1, cut)
             \o (IF precision > 0 THEN <<".">> \o SubSeq(ds, cut + 1, Len(ds))
                 ELSE <<>>)

\* abs_value.log10().floor() as i32
Log10FloorI32(abs_value) ==
    IF IsNaN(abs_value) THEN 0
    ELSE IF IsInf(abs_value) THEN I32Max
    ELSE IF IsZero(abs_value) THEN -I32Max - 1
    ELSE abs_value.e

\* 10_f64.powi(exponent)
Powi10(exponent) ==
    IF exponent > MaxExp THEN Inf(1)
    ELSE IF exponent < MinExp THEN Zero(1)
    ELSE [c |-> "fin", s |-> 1, m |-> Pow10(Digits - 1), e |-> exponent]

AbsI32(i) == IF i < 0 THEN -i ELSE i

\* format_scientific without its "0" shortcut: zero goes to the fixed-point branch
format_scientific_ZeroFixed(value, precision) ==
    IF FEq(value, Zero(1)) THEN FmtFixed(value, precision)
    ELSE LET abs_value == FAbs(value)
             exponent == Log10FloorI32(abs_value)
             mantissa == FDiv(value, Powi10(exponent))
         IN  IF AbsI32(exponent) < 3 /\ FGe(abs_value, Milli)
                /\ FLt(abs_value, Thousand)
             THEN FmtFixed(value, precision)
             ELSE FmtFixed(mantissa, precision) \o <<"×", "1", "0", "^">>
                  \o IntToText(exponent)

format_scientific(value, precision) ==
    IF FEq(value, Zero(1)) THEN <<"0">>
    ELSE LET abs_value == FAbs(value)
             exponent == Log10FloorI32(abs_value)
             mantissa == FDiv(value, Powi10(exponent))
         IN  IF AbsI32(exponent) < 3 /\ FGe(abs_value, Milli)
                /\ FLt(abs_value, Thousand)
             THEN FmtFixed(value, precision)
             ELSE FmtFixed(mantissa, precision) \o <<"×", "1", "0", "^">>
                  \o IntToText(exponent)

\* an error string: format!("<kind> <what>: {}", detail)
ErrMsg(kind, what, detail) == Err([kind |-> kind, what |-> what, detail |-> detail])

\* format_number with the precision parsed strictly, like the value
format_number_StrictPrecision(value_bytes, precision_bytes, scientific_bytes) ==
    LET vt == from_utf8(value_bytes)
        v == ParseF64(vt.v)
        pt == from_utf8(precision_bytes)
        pp == ParseUsize(pt.v)
        st == from_utf8(scientific_bytes)
        sp == ParseBool(st.v)
        use_scientific == IF sp.ok THEN sp.v ELSE FALSE
    IN  IF ~vt.ok THEN ErrMsg("Invalid UTF-8 in", "value", vt.v)
        ELSE IF ~v.ok THEN ErrMsg("Failed to parse", "value", v.v)
        ELSE IF ~pt.ok THEN ErrMsg("Invalid UTF-8 in", "precision", pt.v)
        ELSE IF ~pp.ok THEN ErrMsg("Failed to parse", "precision", pp.v)
        ELSE IF ~st.ok THEN ErrMsg("Invalid UTF-8 in", "scientific flag", st.v)
        ELSE Ok(IF use_scientific THEN format_scientific(v.v, pp.v)
                ELSE FmtFixed(v.v, pp.v))

format_number(value_bytes, precision_bytes, scientific_bytes) ==
    LET vt == from_utf8(value_bytes)
        v == ParseF64(vt.v)
        pt == from_utf8(precision_bytes)
        pp == ParseUsize(pt.v)
        precision == IF pp.ok THEN pp.v ELSE 2
        st == from_utf8(scientific_bytes)
        sp == ParseBool(st.v)
        use_scientific == IF sp.ok THEN sp.v ELSE FALSE
    IN  IF ~vt.ok THEN ErrMsg("Invalid UTF-8 in", "value", vt.v)
        ELSE IF ~v.ok THEN ErrMsg("Failed to parse", "value", v.v)
        ELSE IF ~pt.ok THEN ErrMsg("Invalid UTF-8 in", "precision", pt.v)
        ELSE IF ~st.ok THEN ErrMsg("Invalid UTF-8 in", "scientific flag", st.v)
        ELSE Ok(IF use_scientific THEN format_scientific(v.v, precision)
                ELSE FmtFixed(v.v, precision))


(***************************************************************************)
(* Result encoder                                                          *)
(***************************************************************************)
\* CalculationResult::new
CalculationResultNew(value, unit) ==
    [value |-> value, unit |-> unit, formatted |-> "None"]

\* serde_json's encoding of an f64: a number, or null when it is not finite
JsonF64(x) == IF IsFinite(x) THEN [t |-> "number", v |-> x] ELSE [t |-> "null"]

\* serde_json::to_vec(&result).unwrap(): `formatted` is skipped when None
to_vec(r) ==
    IF r.formatted = "None"
    THEN [value |-> JsonF64(r.value), unit |-> r.unit]
    ELSE [value |-> JsonF64(r.value), unit |-> r.unit, formatted |-> r.formatted]

(***************************************************************************)
(* Formula evaluators                                                      *)
(***************************************************************************)
\* std::str::from_utf8(bytes).map_err(..)?.parse::<f64>().map_err(..)?
DecodeF64(bytes, what) ==
    LET t == from_utf8(bytes)
        x == ParseF64(t.v)
    IN  IF ~t.ok THEN ErrMsg("Invalid UTF-8 in", what, t.v)
        ELSE IF ~x.ok THEN ErrMsg("Failed to parse", what, x.v)
        ELSE x

\* std::str::from_utf8(bytes).map_err(..)?.parse::<i32>().map_err(..)?
DecodeI32(bytes, what) ==
    LET t == from_utf8(bytes)
        x == ParseI32(t.v)
    IN  IF ~t.ok THEN ErrMsg("Invalid UTF-8 in", what, t.v)
        ELSE IF ~x.ok THEN ErrMsg("Failed to parse", what, x.v)
        ELSE x

\* J/(mol K)
R == FNorm(1, 8314, -3)
\* Boltzmann constant (J/K)
KB == FNorm(1, 1380649, -29)
\* Planck constant (J s)
H == FNorm(1, 662607015, -42)
\* Avogadro's number (1/mol)
NA == FNorm(1, 602214076, 15)

calculate_gibbs_energy(enthalpy_bytes, entropy_bytes, temperature_bytes) ==
    LET enthalpy == DecodeF64(enthalpy_bytes, "enthalpy")
        entropy == DecodeF64(entropy_bytes, "entropy")
        temperature == DecodeF64(temperature_bytes, "temperature")
        delta_g == FSub(enthalpy.v, FMul(temperature.v, FDiv(entropy.v, Thousand)))
    IN  IF ~enthalpy.ok THEN enthalpy
        ELSE IF ~entropy.ok THEN entropy
        ELSE IF ~temperature.ok THEN temperature
        ELSE Ok(to_vec(CalculationResultNew(delta_g, "kJ/mol")))

calculate_equilibrium_constant(gibbs_energy_bytes, temperature_bytes) ==
    LET delta_g == DecodeF64(gibbs_energy_bytes, "Gibbs energy")
        temperature == DecodeF64(temperature_bytes, "temperature")
        k == FExp(FDiv(FMul(FNeg(delta_g.v), Thousand), FMul(R, temperature.v)))
    IN  IF ~delta_g.ok THEN delta_g
        ELSE IF ~temperature.ok THEN temperature
        ELSE Ok(to_vec(CalculationResultNew(k, "")))

calculate_rate_constant_arrhenius(a_bytes, ea_bytes, temperature_bytes) ==
    LET a == DecodeF64(a_bytes, "A")
        ea == DecodeF64(ea_bytes, "Ea")
        temperature == DecodeF64(temperature_bytes, "temperature")
        k == FMul(a.v, FExp(FDiv(FMul(FNeg(ea.v), Thousand),
                                 FMul(R, temperature.v))))
    IN  IF ~a.ok THEN a
        ELSE IF ~ea.ok THEN ea
        ELSE IF ~temperature.ok THEN temperature
        ELSE Ok(to_vec(CalculationResultNew(k, "")))

\* (the activation quantities are named by their variables in the error
\* strings and the unit is written s^-1)
calculate_rate_constant_eyring(delta_h_bytes, delta_s_bytes, temperature_bytes) ==
    LET delta_h == DecodeF64(delta_h_bytes, "delta_h")
        delta_s == DecodeF64(delta_s_bytes, "delta_s")
        temperature == DecodeF64(temperature_bytes, "temperature")
        delta_g == FSub(FMul(delta_h.v, Thousand), FMul(temperature.v, delta_s.v))
        kb_over_h == FDiv(KB, H)
        k == FMul(FDiv(FMul(kb_over_h, temperature.v), NA),
                  FExp(FDiv(FNeg(delta_g), FMul(R, temperature.v))))
    IN  IF ~delta_h.ok THEN delta_h
        ELSE IF ~delta_s.ok THEN delta_s
        ELSE IF ~temperature.ok THEN temperature
        ELSE Ok(to_vec(CalculationResultNew(k, "s^-1")))

calculate_activation_energy(k1_bytes, t1_bytes, k2_bytes, t2_bytes) ==
    LET k1 == DecodeF64(k1_bytes, "k1")
        t1 == DecodeF64(t1_bytes, "T1")
        k2 == DecodeF64(k2_bytes, "k2")
        t2 == DecodeF64(t2_bytes, "T2")
        ea == FDiv(FDiv(FMul(R, FLn(FDiv(k2.v, k1.v))),
                        FSub(FDiv(One, t1.v), FDiv(One, t2.v))),
                   Thousand)
    IN  IF ~k1.ok THEN k1
        ELSE IF ~t1.ok THEN t1
        ELSE IF ~k2.ok THEN k2
        ELSE IF ~t2.ok THEN t2
        ELSE Ok(to_vec(CalculationResultNew(ea, "kJ/mol")))

\* half_life with the second-order arm forgetting the initial concentration
half_life_SecondOrderWithoutConc(order, k, initial_conc) ==
    CASE order = 0 -> Ok(FDiv(initial_conc, FMul(Two, k)))
      [] order = 1 -> Ok(FDiv(FLn(Two), k))
      [] order = 2 -> Ok(FDiv(One, k))
      [] OTHER -> ErrMsg("Unsupported reaction order", "", order)

\* the match on the reaction order
half_life(order, k, initial_conc) ==
    CASE order = 0 -> Ok(FDiv(initial_conc, FMul(Two, k)))
      [] order = 1 -> Ok(FDiv(FLn(Two), k))
      [] order = 2 -> Ok(FDiv(One, FMul(k, initial_conc)))
      [] OTHER -> ErrMsg("Unsupported reaction order", "", order)

calculate_half_life(k_bytes, order_bytes, initial_conc_bytes) ==
    LET k == DecodeF64(k_bytes, "k")
        order == DecodeI32(order_bytes, "order")
        ct == from_utf8(initial_conc_bytes)
        cp == ParseF64(ct.v)
        initial_conc == IF cp.ok THEN cp.v ELSE One
        hl == half_life(order.v, k.v, initial_conc)
    IN  IF ~k.ok THEN k
        ELSE IF ~order.ok THEN order
        ELSE IF ~ct.ok THEN ErrMsg("Invalid UTF-8 in", "initial concentration", ct.v)
        ELSE IF ~hl.ok THEN hl
        ELSE Ok(to_vec(CalculationResultNew(hl.v, "s")))


(***************************************************************************)
(* Species data table and stoichiometric aggregation                       *)
(***************************************************************************)
\* serde_json::from_slice on a structured buffer: the buffer either is
\* malformed or encodes a value of the expected type
from_slice(json) ==
    IF json.wf THEN Ok(json.val) ELSE Err("expected value at line 1 column 1")

\* Accumulate with a formula without data contributing nothing
RECURSIVE Accumulate_SkipMissing(_, _, _, _, _, _)
Accumulate_SkipMissing(terms, i, data, field, role, acc) ==
    IF i > Len(terms) THEN Ok(acc)
    ELSE LET formula == terms[i][1]
             coeff == terms[i][2]
         IN  IF formula \notin DOMAIN data
             THEN Accumulate_SkipMissing(terms, i + 1, data, field, role, acc)
             ELSE LET x == FMul(coeff, data[formula][field])
                  IN  Accumulate_SkipMissing(terms, i + 1, data, field, role,
                                             IF role = "product" THEN FAdd(acc, x)
                                             ELSE FSub(acc, x))

\* Accumulate with the reactants added instead of subtracted
RECURSIVE Accumulate_AddsReactants(_, _, _, _, _, _)
Accumulate_AddsReactants(terms, i, data, field, role, acc) ==
    IF i > Len(terms) THEN Ok(acc)
    ELSE LET formula == terms[i][1]
             coeff == terms[i][2]
         IN  IF formula \notin DOMAIN data
             THEN ErrMsg("No data found for", role, formula)
             ELSE Accumulate_AddsReactants(terms, i + 1, data, field, role,
                      FAdd(acc, FMul(coeff, data[formula][field])))

\* Accumulate with a product assigned (=) instead of accumulated (+=)
RECURSIVE Accumulate_AssignsProduct(_, _, _, _, _, _)
Accumulate_AssignsProduct(terms, i, data, field, role, acc) ==
    IF i > Len(terms) THEN Ok(acc)
    ELSE LET formula == terms[i][1]
             coeff == terms[i][2]
         IN  IF formula \notin DOMAIN data
             THEN ErrMsg("No data found for", role, formula)
             ELSE LET x == FMul(coeff, data[formula][field])
                  IN  Accumulate_AssignsProduct(terms, i + 1, data, field, role,
                                                IF role = "product" THEN x
                                                ELSE FSub(acc, x))

\* one `for (formula, coeff) in terms` loop, from term i on: acc += (or -=)
\* coeff * data[formula].field, stopping at the first formula without data
RECURSIVE Accumulate(_, _, _, _, _, _)
Accumulate(terms, i, data, field, role, acc) ==
    IF i > Len(terms) THEN Ok(acc)
    ELSE LET formula == terms[i][1]
             coeff == terms[i][2]
         IN  IF formula \notin DOMAIN data
             THEN ErrMsg("No data found for", role, formula)
             ELSE LET x == FMul(coeff, data[formula][field])
                  IN  Accumulate(terms, i + 1, data, field, role,
                                 IF role = "product" THEN FAdd(acc, x)
                                 ELSE FSub(acc, x))

\* ReactionSum with the reactants looked up before the products
ReactionSum_ReactantsFirst(reactants_json, products_json, data_json, field, unit) ==
    LET reactants == from_slice(reactants_json)
        products == from_slice(products_json)
        data == from_slice(data_json)
        afterReactants == Accumulate(reactants.v, 1, data.v, field, "reactant",
                                     Zero(1))
        afterProducts == Accumulate(products.v, 1, data.v, field, "product",
                                    afterReactants.v)
    IN  IF ~reactants.ok THEN ErrMsg("Failed to parse", "reactants", reactants.v)
        ELSE IF ~products.ok THEN ErrMsg("Failed to parse", "products", products.v)
        ELSE IF ~data.ok THEN ErrMsg("Failed to parse", "thermodynamic data", data.v)
        ELSE IF ~afterReactants.ok THEN afterReactants
        ELSE IF ~afterProducts.ok THEN afterProducts
        ELSE Ok(to_vec(CalculationResultNew(afterProducts.v, unit)))

\* the body shared by calculate_reaction_enthalpy and calculate_reaction_entropy
ReactionSum(reactants_json, products_json, data_json, field, unit) ==
    LET reactants == from_slice(reactants_json)
        products == from_slice(products_json)
        data == from_slice(data_json)
        afterProducts == Accumulate(products.v, 1, data.v, field, "product", Zero(1))
        afterReactants == Accumulate(reactants.v, 1, data.v, field, "reactant",
                                     afterProducts.v)
    IN  IF ~reactants.ok THEN ErrMsg("Failed to parse", "reactants", reactants.v)
        ELSE IF ~products.ok THEN ErrMsg("Failed to parse", "products", products.v)
        ELSE IF ~data.ok THEN ErrMsg("Failed to parse", "thermodynamic data", data.v)
        ELSE IF ~afterProducts.ok THEN afterProducts
        ELSE IF ~afterReactants.ok THEN afterReactants
        ELSE Ok(to_vec(CalculationResultNew(afterReactants.v, unit)))

calculate_reaction_enthalpy(reactants_json, products_json, data_json) ==
    ReactionSum(reactants_json, products_json, data_json, "delta_Hf", "kJ/mol")

calculate_reaction_entropy(reactants_json, products_json, data_json) ==
    ReactionSum(reactants_json, products_json, data_json, "S", "J/(mol·K)")


(***************************************************************************)
(* Inputs that are enumerated                                              *)
(***************************************************************************)
Junk == {<<>>, <<"x">>, <<BadByte>>}

\* value of format_number
ValueTexts ==
    { <<"0">>, <<"-", "0">>, <<"0", ".", "0">>,
      <<"1", ".", "2", "3">>, <<"-", "1", ".", "2", "3">>, <<"2", ".", "5">>,
      <<"5", "0", "0">>, <<"9", "9", "9">>, <<"1", "0", "0", "0">>,
      <<"9", "9", "9", "0">>, <<"-", "1", "2", "3", "0", "0">>,
      <<"0", ".", "0", "1">>, <<"0", ".", "0", "0", "7">>,
      <<"0", ".", "0", "0", "3">>, <<"-", "0", ".", "0", "0", "2">>,
      <<"6", "e", "-", "4">>, <<"0", ".", "0", "0", "0", "9", "9", "9">>,
      <<"i", "n", "f">>, <<"N", "a", "N">> } \cup Junk

\* precision of format_number
PrecTexts ==
    { NatToText(n) : n \in 0..MaxPrec }
    \cup { <<"+", "1">>, <<"-", "1">>, <<"2", ".", "0">> } \cup Junk

\* use_scientific of format_number
SciTexts ==
    { <<"t", "r", "u", "e">>, <<"f", "a", "l", "s", "e">>,
      <<"T", "r", "u", "e">>, <<"1">> } \cup Junk

\* a scalar argument of a formula evaluator
F64Texts ==
    { <<"0">>, <<"1">>, <<"2">>, <<"3", "0", "0">>, <<"-", "5">>,
      <<"i", "n", "f">>, <<"x">>, <<BadByte>> }

\* order of calculate_half_life
OrderTexts ==
    { IntToText(n) : n \in -1..MaxOrder } \cup { <<"+", "2">>, <<"1", ".", "0">> }
    \cup Junk

\* initial_conc of calculate_half_life
ConcTexts == { <<"1">>, <<"2">>, <<"0", ".", "5">>, <<"0">> } \cup Junk

Half == FNorm(1, 5, -1)

ThermodynamicData(delta_hf, s, delta_gf) ==
    [delta_Hf |-> delta_hf, S |-> s, delta_Gf |-> delta_gf]

\* species tables, in units of 10 kJ/mol and 10 J/(mol K)
Tables ==
    { [f \in {"CO", "O2", "CO2"} |->
          CASE f = "CO" -> ThermodynamicData(FNorm(-1, 11, 0), FNorm(1, 20, 0),
                                             FNorm(-1, 14, 0))
            [] f = "O2" -> ThermodynamicData(Zero(1), FNorm(1, 21, 0), Zero(1))
            [] f = "CO2" -> ThermodynamicData(FNorm(-1, 39, 0), FNorm(1, 22, 0),
                                              FNorm(-1, 38, 0))],
      [f \in {"CO2"} |->
          ThermodynamicData(FNorm(-1, 39, 0), FNorm(1, 22, 0), FNorm(-1, 38, 0))] }

\* stoichiometric terms (formula, coefficient)
Terms == { <<"CO", Two>>, <<"O2", Half>>, <<"CO2", Two>>, <<"XX2", One>> }

TermLists == UNION { [1..n -> Terms] : n \in 0..MaxTerms }

Malformed == [wf |-> FALSE, val |-> <<>>]
Json(v) == [wf |-> TRUE, val |-> v]

TermBufs == { Json(l) : l \in TermLists } \cup {Malformed}
DataBufs == { Json(t) : t \in Tables } \cup {Malformed}

(***************************************************************************)
(* The plugin: one action per exported function.  The host calls one       *)
(* function at a time and takes its result before the next call; no state  *)
(* is kept between calls.                                                  *)
(***************************************************************************)
Init ==
    /\ op = "none"
    /\ args = <<>>
    /\ result = Ok(<<>>)

\* the host has taken the result
Return ==
    /\ op # "none"
    /\ op' = "none"
    /\ args' = <<>>
    /\ result' = Ok(<<>>)

FormatNumber ==
    /\ op = "none"
    /\ \E v \in ValueTexts, p \in PrecTexts, s \in SciTexts :
           /\ op' = "format_number"
           /\ args' = <<v, p, s>>
           /\ result' = format_number(v, p, s)

ReactionEnthalpy ==
    /\ op = "none"
    /\ \E r \in TermBufs, p \in TermBufs, d \in DataBufs :
           /\ op' = "calculate_reaction_enthalpy"
           /\ args' = <<r, p, d>>
           /\ result' = calculate_reaction_enthalpy(r, p, d)

ReactionEntropy ==
    /\ op = "none"
    /\ \E r \in TermBufs, p \in TermBufs, d \in DataBufs :
           /\ op' = "calculate_reaction_entropy"
           /\ args' = <<r, p, d>>
           /\ result' = calculate_reaction_entropy(r, p, d)

GibbsEnergy ==
    /\ op = "none"
    /\ \E h \in F64Texts, s \in F64Texts, t \in F64Texts :
           /\ op' = "calculate_gibbs_energy"
           /\ args' = <<h, s, t>>
           /\ result' = calculate_gibbs_energy(h, s, t)

EquilibriumConstant ==
    /\ op = "none"
    /\ \E g \in F64Texts, t \in F64Texts :
           /\ op' = "calculate_equilibrium_constant"
           /\ args' = <<g, t>>
           /\ result' = calculate_equilibrium_constant(g, t)

RateConstantArrhenius ==
    /\ op = "none"
    /\ \E a \in F64Texts, ea \in F64Texts, t \in F64Texts :
           /\ op' = "calculate_rate_constant_arrhenius"
           /\ args' = <<a, ea, t>>
           /\ result' = calculate_rate_constant_arrhenius(a, ea, t)

RateConstantEyring ==
    /\ op = "none"
    /\ \E h \in F64Texts, s \in F64Texts, t \in F64Texts :
           /\ op' = "calculate_rate_constant_eyring"
           /\ args' = <<h, s, t>>
           /\ result' = calculate_rate_constant_eyring(h, s, t)

ActivationEnergy ==
    /\ op = "none"
    /\ \E k1 \in F64Texts, t1 \in F64Texts, k2 \in F64Texts, t2 \in F64Texts :
           /\ op' = "calculate_activation_energy"
           /\ args' = <<k1, t1, k2, t2>>
           /\ result' = calculate_activation_energy(k1, t1, k2, t2)

HalfLife ==
    /\ op = "none"
    /\ \E k \in F64Texts, o \in OrderTexts, c \in ConcTexts :
           /\ op' = "calculate_half_life"
           /\ args' = <<k, o, c>>
           /\ result' = calculate_half_life(k, o, c)

EvalCalls ==
    \/ GibbsEnergy
    \/ EquilibriumConstant
    \/ RateConstantArrhenius
    \/ RateConstantEyring
    \/ ActivationEnergy
    \/ HalfLife

ReactionCalls == ReactionEnthalpy \/ ReactionEntropy

NextFormat == FormatNumber \/ Return

NextReaction == ReactionCalls \/ Return

NextEval == EvalCalls \/ Return

NextScalar == FormatNumber \/ EvalCalls \/ Return

Next == FormatNumber \/ ReactionCalls \/ EvalCalls \/ Return

SpecFormat == Init /\ [][NextFormat]_vars

SpecReaction == Init /\ [][NextReaction]_vars

SpecEval == Init /\ [][NextEval]_vars

SpecScalar == Init /\ [][NextScalar]_vars

Spec == Init /\ [][Next]_vars


(***************************************************************************)
(* Claims about the numeric formatter (SpecFormat)                         *)
(***************************************************************************)
IsFormat == op = "format_number"

\* the arguments of the last format_number call, as the call decoded them
FmtValue == ParseF64(args[1]).v
FmtPrecision == IF ParseUsize(args[2]).ok THEN ParseUsize(args[2]).v ELSE 2
FmtScientific == ParseBool(args[3]).ok /\ ParseBool(args[3]).v

\* format_number rendered a value equal to 0.0
ZeroRendered == IsFormat /\ result.ok /\ FEq(FmtValue, Zero(1))

\* zero in fixed point: "0", and "." and p zeros when p > 0, after the sign
IsFixedZero(t, p) ==
    Unsigned(t) = <<"0">> \o (IF p > 0 THEN <<".">> \o Zeros(p) ELSE <<>>)

\* C1 as stated: a value equal to 0.0 renders as the literal "0" for every
\* precision and for both values of the scientific flag.
C1_ZeroIsLiteralZero == ZeroRendered => result.v = <<"0">>

\* C1 amended: a value equal to 0.0 renders as the literal "0" for every
\* precision when the scientific flag is true; when the flag is false it
\* renders in fixed point with exactly `precision` digits after the point
\* ("0.00" for precision 2), which is "0" only for precision 0.
C1_ZeroRendering ==
    ZeroRendered =>
        IF FmtScientific THEN result.v = <<"0">>
        ELSE IsFixedZero(result.v, FmtPrecision)

C1_Witness ==
    ZeroRendered /\ FmtScientific /\ FmtPrecision = MaxPrec /\ result.v = <<"0">>

IsSci(t) == \E i \in 1..Len(t) : t[i] = "×"
IndexOf(t, ch) == CHOOSE i \in 1..Len(t) : t[i] = ch

\* the mantissa and the exponent as printed in "m×10^e"
SciMantissa(t) == SubSeq(t, 1, IndexOf(t, "×") - 1)
SciExponent(t) == SubSeq(t, IndexOf(t, "^") + 1, Len(t))

\* the digits before the decimal point
IntDigits(t) ==
    LET u == Unsigned(t)
    IN  IF \E i \in 1..Len(u) : u[i] = "." THEN SubSeq(u, 1, IndexOf(u, ".") - 1)
        ELSE u

\* format_number rendered a non-zero value with the scientific flag true
SciRequested ==
    IsFormat /\ result.ok /\ FmtScientific /\ ~FEq(FmtValue, Zero(1))

InBand(v) == FGe(FAbs(v), Milli) /\ FLt(FAbs(v), Thousand)
OutOfBand(v) == FLt(FAbs(v), Milli) \/ FGe(FAbs(v), Thousand)

\* C2 as stated: with the scientific flag true and a non-zero value, every
\* value with 0.001 <= |value| < 1000 is rendered in fixed point, identical
\* to the non-scientific rendering, and every value with |value| < 0.001 or
\* |value| >= 1000 is rendered in scientific form.
C2_BandDecidesNotation ==
    SciRequested =>
        /\ InBand(FmtValue) =>
               result = format_number(args[1], args[2], <<"f", "a", "l", "s", "e">>)
        /\ OutOfBand(FmtValue) => IsSci(result.v)

\* C10 as stated: whenever a finite value is rendered in scientific form
\* "m×10^e", e is floor(log10(|value|)) and the printed mantissa has exactly
\* one digit, not 0, before the decimal point (1 <= |m| < 10).
C10_MantissaNormalised ==
    (IsFormat /\ result.ok /\ IsFinite(FmtValue) /\ IsSci(result.v)) =>
        /\ SciExponent(result.v) = IntToText(FmtValue.e)
        /\ Len(IntDigits(SciMantissa(result.v))) = 1
        /\ IntDigits(SciMantissa(result.v)) # <<"0">>


(***************************************************************************)
(* Claims about the reaction operations (SpecReaction).  The species data  *)
(* and the coefficients that are enumerated are exactly representable, and *)
(* so is every partial sum: the arithmetic of these claims is exact.       *)
(***************************************************************************)
IsReaction == op \in {"calculate_reaction_enthalpy", "calculate_reaction_entropy"}

AllDecode == args[1].wf /\ args[2].wf /\ args[3].wf

\* the reaction query of the last call, when its three buffers decode
QReactants == args[1].val
QProducts == args[2].val
QTable == args[3].val
QField == IF op = "calculate_reaction_enthalpy" THEN "delta_Hf" ELSE "S"
QUnit == IF op = "calculate_reaction_enthalpy" THEN "kJ/mol" ELSE "J/(mol·K)"

\* the positions of the terms whose formula is not a key of the table
MissingIn(terms) == { i \in 1..Len(terms) : terms[i][1] \notin DOMAIN QTable }

MinOf(S) == CHOOSE i \in S : \A j \in S : i <= j

NoDataError(role, terms) ==
    /\ ~result.ok
    /\ result.v.kind = "No data found for"
    /\ result.v.what = role
    /\ \E i \in MissingIn(terms) : result.v.detail = terms[i][1]

\* C3: when all three buffers decode and some reactant or product term names
\* a formula that is not a key of the species table, the operation fails with
\* an error naming such a formula and its role; no result record is returned.
C3_MissingSpeciesFails ==
    (IsReaction /\ AllDecode /\ MissingIn(QReactants) \cup MissingIn(QProducts) # {}) =>
        NoDataError("product", QProducts) \/ NoDataError("reactant", QReactants)

C3_Witness ==
    /\ IsReaction /\ AllDecode
    /\ MissingIn(QProducts) = {} /\ Len(QProducts) > 0
    /\ NoDataError("reactant", QReactants)

\* sum of coefficient * field over the terms, one summand per listing
RECURSIVE WeightedSum(_, _)
WeightedSum(terms, field) ==
    IF Len(terms) = 0 THEN Zero(1)
    ELSE FAdd(WeightedSum(Tail(terms), field),
              FMul(Head(terms)[2], QTable[Head(terms)[1]][field]))

ResultValue(r) == r.v.value.v

\* C7: for every reaction query whose formulas are all in the species table,
\* calculate_reaction_enthalpy returns the sum over products of coefficient *
\* enthalpy_of_formation minus that sum over reactants, and
\* calculate_reaction_entropy the same over the entropy field; a formula
\* listed several times counts once per listing, an empty list counts 0.
C7_ProductsMinusReactants ==
    (IsReaction /\ AllDecode /\ MissingIn(QReactants) \cup MissingIn(QProducts) = {}) =>
        /\ result.ok
        /\ result.v.unit = QUnit
        /\ result.v.value.t = "number"
        /\ FEq(ResultValue(result),
               FSub(WeightedSum(QProducts, QField), WeightedSum(QReactants, QField)))

C7_Witness ==
    /\ op = "calculate_reaction_entropy" /\ AllDecode /\ result.ok
    /\ Len(QProducts) = 2 /\ QProducts[1] = QProducts[2]
    /\ Len(QReactants) = 0
    /\ ~FEq(ResultValue(result), Zero(1))

\* the reorderings of a list
Reorderings(terms) ==
    { [i \in 1..Len(terms) |-> terms[f[i]]] : f \in Permutations(1..Len(terms)) }

SameCall(r, p, d) ==
    IF op = "calculate_reaction_enthalpy" THEN calculate_reaction_enthalpy(r, p, d)
    ELSE calculate_reaction_entropy(r, p, d)

\* C8: for every reaction query that succeeds, reordering the reactant terms
\* and the product terms leaves the returned value unchanged, and exchanging
\* the reactant list with the product list negates it.
C8_OrderInvariantSwapNegates ==
    (IsReaction /\ AllDecode /\ result.ok) =>
        /\ \A r \in Reorderings(QReactants), p \in Reorderings(QProducts) :
               SameCall(Json(r), Json(p), args[3]) = result
        /\ LET swapped == SameCall(args[2], args[1], args[3])
           IN  /\ swapped.ok
               /\ swapped.v.value.t = "number"
               /\ FEq(ResultValue(swapped), FNeg(ResultValue(result)))

C8_Witness ==
    /\ IsReaction /\ AllDecode /\ result.ok
    /\ Len(QProducts) = 2 /\ QProducts[1] # QProducts[2]
    /\ Len(QReactants) = 2 /\ QReactants[1] # QReactants[2]
    /\ ~FEq(ResultValue(result), Zero(1))

\* the first failure in the order: reactant list, product list, species
\* table, products in list order, reactants in list order
FirstFailure ==
    IF ~args[1].wf THEN ErrMsg("Failed to parse", "reactants", from_slice(args[1]).v)
    ELSE IF ~args[2].wf
         THEN ErrMsg("Failed to parse", "products", from_slice(args[2]).v)
    ELSE IF ~args[3].wf
         THEN ErrMsg("Failed to parse", "thermodynamic data", from_slice(args[3]).v)
    ELSE IF MissingIn(QProducts) # {}
         THEN ErrMsg("No data found for", "product",
                     QProducts[MinOf(MissingIn(QProducts))][1])
    ELSE IF MissingIn(QReactants) # {}
         THEN ErrMsg("No data found for", "reactant",
                     QReactants[MinOf(MissingIn(QReactants))][1])
    ELSE Ok("no failure")

\* C9: exactly one error is reported and it is the first failure in the order
\* reactant list, product list, species table, products in list order,
\* reactants in list order; without a failure the operation succeeds.
C9_FirstFailureReported ==
    IsReaction => IF FirstFailure.ok THEN result.ok ELSE result = FirstFailure

C9_Witness ==
    /\ IsReaction /\ AllDecode
    /\ MissingIn(QReactants) # {} /\ Cardinality(MissingIn(QProducts)) = 2
    /\ QProducts[1][1] # QProducts[2][1]
    /\ QReactants[1][1] # QProducts[1][1]
    /\ NoDataError("product", QProducts)
    /\ result.v.detail = QProducts[1][1]


(***************************************************************************)
(* Claims about the formula evaluators (SpecEval) and about the scalar     *)
(* inputs of every operation (SpecScalar)                                  *)
(***************************************************************************)
IsHalfLife == op = "calculate_half_life"

Utf8(i) == from_utf8(args[i]).ok

\* the arguments of the last calculate_half_life call
HLRate == ParseF64(args[1])
HLOrder == ParseI32(args[2])
HLConc == IF ParseF64(args[3]).ok THEN ParseF64(args[3]).v ELSE One

\* the rate constant and the order both decode and parse
HLDecoded == IsHalfLife /\ Utf8(1) /\ HLRate.ok /\ Utf8(2) /\ HLOrder.ok

InvalidOrderError ==
    /\ ~result.ok
    /\ result.v.kind = "Unsupported reaction order"
    /\ result.v.detail = HLOrder.v

\* [A]0/(2k), ln2/k and 1/(k [A]0)
HalfLifeFormula(order, k, conc) ==
    CASE order = 0 -> FDiv(conc, FMul(Two, k))
      [] order = 1 -> FDiv(FLn(Two), k)
      [] order = 2 -> FDiv(One, FMul(k, conc))

HalfLifeByOrder ==
    /\ InvalidOrderError <=> HLOrder.v \notin {0, 1, 2}
    /\ HLOrder.v \in {0, 1, 2} =>
           /\ result.ok
           /\ result.v.unit = "s"
           /\ result.v.value = JsonF64(HalfLifeFormula(HLOrder.v, HLRate.v, HLConc))

\* C4 as stated: with a rate constant and an order that both decode and parse,
\* calculate_half_life fails with an invalid-order error citing the order if
\* and only if the order is outside {0, 1, 2}; for order 0, 1 or 2 it returns
\* a record with unit "s" and [A]0/(2k), ln2/k, 1/(k [A]0) respectively.
C4_OrderDecidesAlone == HLDecoded => HalfLifeByOrder

\* C4 amended: the same, when moreover the initial-concentration buffer is
\* valid UTF-8 (otherwise the call fails on that buffer, whatever the order).
C4_HalfLifeByOrder == (HLDecoded /\ Utf8(3)) => HalfLifeByOrder

C4_Witness == HLDecoded /\ Utf8(3) /\ HLOrder.v < 0 /\ InvalidOrderError


Evaluators ==
    { "calculate_gibbs_energy", "calculate_equilibrium_constant",
      "calculate_rate_constant_arrhenius", "calculate_rate_constant_eyring",
      "calculate_activation_energy", "calculate_half_life" }

IsEvaluator == op \in Evaluators

\* the names of the strictly parsed arguments of each operation, which are its
\* leading arguments, as the error strings give them
StrictArgs ==
    CASE op = "format_number" -> <<"value">>
      [] op = "calculate_gibbs_energy" -> <<"enthalpy", "entropy", "temperature">>
      [] op = "calculate_equilibrium_constant" -> <<"Gibbs energy", "temperature">>
      [] op = "calculate_rate_constant_arrhenius" -> <<"A", "Ea", "temperature">>
      [] op = "calculate_rate_constant_eyring" -> <<"delta_h", "delta_s", "temperature">>
      [] op = "calculate_activation_energy" -> <<"k1", "T1", "k2", "T2">>
      [] op = "calculate_half_life" -> <<"k", "order">>
      [] OTHER -> <<>>

\* argument i as its type parses it: the order is an i32, the others are f64
StrictParsed(i) ==
    IF IsHalfLife /\ i = 2 THEN ParseI32(args[i]) ELSE ParseF64(args[i])

Decoded(i) == Utf8(i) /\ StrictParsed(i).ok
Unparsable(i) == Utf8(i) /\ ~StrictParsed(i).ok

TextFalse == <<"f", "a", "l", "s", "e">>

\* two outcomes are the same: both succeed with the same bytes, or both fail
\* with the same error string
SameOutcome(a, b) ==
    /\ a.ok = b.ok
    /\ IF a.ok THEN a.v = b.v
       ELSE /\ a.v.kind = b.v.kind
            /\ a.v.what = b.v.what
            /\ a.v.detail = b.v.detail

\* an unparsable tolerant input gives the outcome of its default passed
\* literally, and the call succeeds when nothing else is wrong
TolerantDefaults ==
    /\ (IsFormat /\ Utf8(2) /\ ~ParseUsize(args[2]).ok) =>
           SameOutcome(result, format_number(args[1], <<"2">>, args[3]))
    /\ (IsFormat /\ Utf8(3) /\ ~ParseBool(args[3]).ok) =>
           SameOutcome(result, format_number(args[1], args[2], TextFalse))
    /\ (IsHalfLife /\ Utf8(3) /\ ~ParseF64(args[3]).ok) =>
           SameOutcome(result,
                       calculate_half_life(args[1], args[2], <<"1", ".", "0">>))
    /\ (IsFormat /\ Decoded(1) /\ Utf8(2) /\ Utf8(3)) => result.ok
    /\ (IsHalfLife /\ Decoded(1) /\ Decoded(2) /\ HLOrder.v \in {0, 1, 2} /\ Utf8(3)) =>
           result.ok

ParseError(i) == ErrMsg("Failed to parse", StrictArgs[i], StrictParsed(i).v)

\* C5 as stated: an unparsable precision is replaced by 2, an unparsable or
\* empty scientific flag by false, an unparsable initial concentration by
\* 1.0, with the outcome of the default passed literally; every other numeric
\* input that does not parse makes the operation fail with a parse error.
C5_TolerantElseParseError ==
    /\ TolerantDefaults
    /\ \A i \in 1..Len(StrictArgs) :
           Unparsable(i) => ~result.ok /\ result.v.kind = "Failed to parse"

\* C5 amended: the same for the three tolerant inputs; every other numeric
\* input that does not parse makes the operation fail, with the parse error
\* of that input when every argument before it decodes and parses (an
\* earlier buffer that is not valid UTF-8 is reported instead).
C5_TolerantElseFirstError ==
    /\ TolerantDefaults
    /\ \A i \in 1..Len(StrictArgs) :
           Unparsable(i) =>
               /\ ~result.ok
               /\ (\A j \in 1..(i - 1) : Decoded(j)) =>
                      SameOutcome(result, ParseError(i))

C5_Witness ==
    /\ IsFormat /\ result.ok
    /\ args[2] = <<"x">> /\ args[3] = <<>>
    /\ result.v = <<"1", ".", "2", "3">>

\* every input of the last evaluator call parses as a number (and the order
\* of a half-life is 0, 1 or 2)
InputsParse ==
    /\ IsEvaluator
    /\ \A i \in 1..Len(StrictArgs) : Decoded(i)
    /\ IsHalfLife => HLOrder.v \in {0, 1, 2} /\ Utf8(3)

\* and every floating-point input is a finite number
FiniteInputsParse ==
    /\ InputsParse
    /\ \A i \in 1..Len(StrictArgs) :
           (IsHalfLife /\ i = 2) \/ IsFinite(StrictParsed(i).v)
    /\ IsHalfLife => IsFinite(HLConc)

\* C6 as stated, for finite inputs: inputs that parse as numbers always
\* produce a success result and never an error, degenerate inputs (T = 0,
\* k = 0, T1 = T2, k1 = 0) included, and the result, also when it is infinite
\* or NaN, is carried in the `value` field of the outbound record as a
\* floating-point value.
C6_ValueCarriedAsFloat ==
    FiniteInputsParse => result.ok /\ result.v.value.t = "number"

\* the part of C6 that the code keeps: such a call always succeeds
EvaluatorsSucceed == InputsParse => result.ok


====
